---- MODULE Spec2Model ----
(***************************************************************************)
(* Model of the comment-analysis batch orchestration of                    *)
(* GAUTAMMANU/Hate-Analysis (src/load_data.py): the RateLimit quota        *)
(* tracker, CommentAnalyzer.process_batch (pre-filter, bounded retry with  *)
(* user confirmation, positional reconciliation) and                       *)
(* CommentAnalyzer.analyze_all_comments (batch slicing, bookkeeping,       *)
(* checkpointing, pacing).                                                 *)
(*                                                                         *)
(* Time is an integer number of seconds.  The program is single-threaded,  *)
(* so an action is one stretch of code between two blocking points (a      *)
(* sleep, the input() prompt, the network call).                           *)
(***************************************************************************)
EXTENDS Integers, Sequences, FiniteSets, TLC

VARIABLES
    now,              \* datetime.now(), in seconds
    rate_limiter,     \* RateLimit object: the four fields of __init__
    last_call,        \* which RateLimit method ran last (observer of the calls)
    can_ret,          \* return value of the last can_make_request()
    gate_pre,         \* were the counters at their ceilings when it was called
    csv,              \* rows of the input file (the comment_text column)
    max_batches,      \* CommentAnalyzer.max_batches
    use_prefilter,    \* CommentAnalyzer.use_prefilter
    data,             \* CommentAnalyzer.data after load_data()
    analyzed_data,    \* CommentAnalyzer.analyzed_data (rows of the DataFrame)
    checkpoint,       \* contents of partial_results.csv
    pc,               \* position of the caller: new, loaded, loop, batch, done
    results,          \* analyze_all_comments: local list results
    batch_num,        \* analyze_all_comments: loop variable
    num_batches,      \* analyze_all_comments: num_batches
    pb,               \* position inside process_batch
    comments,         \* process_batch: parameter comments
    potentially_offensive, \* process_batch: local
    retry_count,      \* process_batch: local
    last_error,       \* process_batch: local
    ret,              \* process_batch: the returned list
    obs,              \* observer: what the run has done so far (calls, prompts, sleeps)
    cli,              \* cli.main: the arguments, the environment and where main is
    cmp,              \* compare_prefilter_results: the two tables and what it computed
    svc               \* observer: what the external service has seen of the run

rlvars == <<now, rate_limiter, last_call, can_ret, gate_pre>>
cfgvars == <<csv, max_batches, use_prefilter>>
runvars == <<data, analyzed_data, checkpoint, pc, results, batch_num, num_batches>>
pbvars == <<pb, comments, potentially_offensive, retry_count, last_error, ret>>
frontvars == <<cli, cmp, svc>>
vars == <<now, rate_limiter, last_call, can_ret, gate_pre, csv, max_batches,
          use_prefilter, data, analyzed_data, checkpoint, pc, results, batch_num,
          num_batches, pb, comments, potentially_offensive, retry_count,
          last_error, ret, obs, cli, cmp, svc>>

(***************************************************************************)
(* Program constants                                                       *)
(***************************************************************************)
DailyLimit == 50
PerMinuteLimit == 15
MinuteSeconds == 60
batch_size == 20
max_retries == 3
PollSleep == 2
RetrySleep == 5
PaceSleep == 5
NoTime == -1
SecondsPerDay == 24 * 60 * 60

(***************************************************************************)
(* Bounds of the model                                                     *)
(***************************************************************************)
MaxDays == 1        \* the clock of the quota harness covers days 0..MaxDays
MaxLen == 3         \* longest fully enumerated input file
MaxBatches == 3     \* largest max_batches
MaxFaults == 3      \* failing service responses / declined prompts per run
MaxRuns == 2        \* calls of analyze_all_comments on one analyzer

Min(a, b) == IF a < b THEN a ELSE b

\* datetime.date(): the calendar day of an instant
Date(t) == t \div SecondsPerDay

(***************************************************************************)
(* RateLimit                                                               *)
(***************************************************************************)
RateLimitInit(t) ==
    [requests_today |-> 0, last_request_time |-> NoTime,
     requests_this_minute |-> 0, day_start |-> t]

\* lines 33-35: reset the daily counter on a new day
DailyReset(rl, t) ==
    IF Date(t) # Date(rl.day_start)
    THEN [rl EXCEPT !.requests_today = 0, !.day_start = t]
    ELSE rl

\* lines 40-41: reset the per-minute counter one minute after the last request
MinuteReset(rl, t) ==
    IF rl.last_request_time # NoTime /\ t - rl.last_request_time >= MinuteSeconds
    THEN [rl EXCEPT !.requests_this_minute = 0]
    ELSE rl

\* mutant: the daily ceiling compared with > instead of >=
can_make_request_daily_gt(rl, t) ==
    LET r1 == DailyReset(rl, t) IN
    IF r1.requests_today > DailyLimit
    THEN [ret |-> FALSE, rl |-> r1]
    ELSE LET r2 == MinuteReset(r1, t) IN
         [ret |-> ~(r2.requests_this_minute >= PerMinuteLimit), rl |-> r2]

\* mutant: the minute reset only strictly after one minute
can_make_request_minute_gt(rl, t) ==
    LET r1 == DailyReset(rl, t) IN
    IF r1.requests_today >= DailyLimit
    THEN [ret |-> FALSE, rl |-> r1]
    ELSE LET r2 == IF r1.last_request_time # NoTime
                      /\ t - r1.last_request_time > MinuteSeconds
                   THEN [r1 EXCEPT !.requests_this_minute = 0]
                   ELSE r1
         IN [ret |-> ~(r2.requests_this_minute >= PerMinuteLimit), rl |-> r2]

\* mutant: the gate never refuses
can_make_request_open(rl, t) ==
    [ret |-> TRUE, rl |-> MinuteReset(DailyReset(rl, t), t)]

\* mutant: the per-minute ceiling is passed before the gate refuses
can_make_request_minute_above(rl, t) ==
    LET r1 == DailyReset(rl, t) IN
    IF r1.requests_today >= DailyLimit
    THEN [ret |-> FALSE, rl |-> r1]
    ELSE LET r2 == MinuteReset(r1, t) IN
         [ret |-> ~(r2.requests_this_minute > PerMinuteLimit), rl |-> r2]

\* RateLimit.can_make_request at time t: the return value and the new fields
can_make_request(rl, t) ==
    LET r1 == DailyReset(rl, t) IN
    IF r1.requests_today >= DailyLimit
    THEN [ret |-> FALSE, rl |-> r1]
    ELSE LET r2 == MinuteReset(r1, t) IN
         IF r2.requests_this_minute >= PerMinuteLimit
         THEN [ret |-> FALSE, rl |-> r2]
         ELSE [ret |-> TRUE, rl |-> r2]

\* observer: the counters as a can_make_request() call found them
GatePre(rl) ==
    [daily_full |-> rl.requests_today >= DailyLimit,
     minute_full |-> rl.requests_this_minute >= PerMinuteLimit]

\* RateLimit.record_request at time t
record_request(rl, t) ==
    [rl EXCEPT !.requests_today = @ + 1,
               !.requests_this_minute = @ + 1,
               !.last_request_time = t]

(***************************************************************************)
(* Comments, verdicts and the local pre-filter                             *)
(***************************************************************************)
Texts == {"clean", "slur", "damn"}

\* the censor words loaded by profanity.load_censor_words()
Lexicon == {"slur", "damn"}

contains_profanity(c) == c \in Lexicon

\* mutant: the pre-filter selects every comment
pre_filter_keeps_all(cs) == cs

\* CommentAnalyzer.pre_filter_comments: the matching comments, in order
pre_filter_comments(cs) == SelectSeq(cs, contains_profanity)

\* an explanation string: its fixed text and the values formatted into it
Explain(text, n, err) == [text |-> text, n |-> n, err |-> err]

\* severity is kept in tenths: 0.0 is 0, 1.0 is 10
Dict(off, type, expl, sev) ==
    [type |-> "dict", is_offensive |-> off, offense_type |-> type,
     explanation |-> expl, severity |-> sev]

\* lines 117-122: the verdict of the short-circuit return
ShortCircuitVerdict ==
    Dict(FALSE, "none", Explain("No profanity detected by pre-filter", 0, ""), 0)

\* mutant: the synthesized verdict marks its comment offensive
DefaultVerdictOffensive(prefilter) ==
    Dict(TRUE, "none", Explain("No profanity detected by pre-filter", 0, ""), 0)

\* lines 155-160: the verdict synthesized for a comment that was not sent
DefaultVerdict(prefilter) ==
    Dict(FALSE, "none",
         Explain(IF prefilter THEN "No profanity detected by pre-filter"
                              ELSE "Analyzed without pre-filter", 0, ""), 0)

\* mutant: the sentinel marks its comments offensive
ErrorVerdictOffensive(n, err) ==
    Dict(TRUE, "error", Explain("Error in analysis after attempts", n, err), 0)

\* lines 179-184: the error sentinel
ErrorVerdict(n, err) ==
    Dict(FALSE, "error", Explain("Error in analysis after attempts", n, err), 0)

\* mutant: one sentinel fewer than comments
ErrorResultsShort(cs, n, err) == [i \in 1..(Len(cs) - 1) |-> ErrorVerdict(n, err)]

\* lines 179-184: one sentinel per comment
ErrorResults(cs, n, err) == [i \in 1..Len(cs) |-> ErrorVerdict(n, err)]

(***************************************************************************)
(* The response of the service: response.text, tokens around a payload     *)
(***************************************************************************)
\* the payload as json.loads would return it
JArray(items) == [type |-> "array", items |-> items]
JString(n) == [type |-> "string", items |-> [i \in 1..n |-> [type |-> "str"]]]
JObject == [type |-> "object", items |-> <<>>]
JInvalid == [type |-> "invalid", items |-> <<>>]

\* the k-th element of a response array, by the pattern the service follows
Elem(p, k) ==
    CASE p = "mixed" -> IF k % 2 = 1
                        THEN Dict(TRUE, "hate speech", Explain("model", k, ""), 9)
                        ELSE Dict(FALSE, "none", Explain("model", k, ""), 0)
      [] p = "badnone" -> Dict(TRUE, "none", Explain("model", k, ""), 3)
      [] OTHER -> IF k = 1 THEN [type |-> "number"]
                  ELSE Dict(FALSE, "none", Explain("model", k, ""), 0)

ArrayOf(p, len) == JArray([k \in 1..len |-> Elem(p, k)])

\* str.strip(): leading and trailing whitespace removed
RECURSIVE LStrip(_)
LStrip(ts) == IF ts # <<>> /\ Head(ts) = "ws" THEN LStrip(Tail(ts)) ELSE ts
RECURSIVE RStrip(_)
RStrip(ts) ==
    IF ts # <<>> /\ ts[Len(ts)] = "ws" THEN RStrip(SubSeq(ts, 1, Len(ts) - 1)) ELSE ts
Strip(ts) == RStrip(LStrip(ts))

\* lines 139-143: strip, then cut a leading json fence and a trailing fence
CleanText(ts) ==
    LET s0 == Strip(ts)
        s1 == IF s0 # <<>> /\ Head(s0) = "fence_json" THEN Tail(s0) ELSE s0
        s2 == IF s1 # <<>> /\ s1[Len(s1)] = "fence"
              THEN SubSeq(s1, 1, Len(s1) - 1) ELSE s1
    IN s2

\* line 145: json.loads accepts one JSON value with whitespace around it
JsonLoads(ts, payload) ==
    IF Strip(ts) = <<"J">> /\ payload.type # "invalid"
    THEN [ok |-> TRUE, val |-> payload, err |-> ""]
    ELSE [ok |-> FALSE, val |-> JInvalid, err |-> "JSONDecodeError"]

\* mutant: an index past the end of the array yields its last element
SubscriptClamped(res, idx) ==
    IF res.type \in {"array", "string"} /\ Len(res.items) > 0
    THEN [ok |-> TRUE, val |-> res.items[Min(idx + 1, Len(res.items))], err |-> ""]
    ELSE [ok |-> FALSE, val |-> [type |-> "none"], err |-> "IndexError"]

\* line 152, results[result_idx] with a 0-based index
Subscript(res, idx) ==
    CASE res.type \in {"array", "string"} ->
            IF idx < Len(res.items)
            THEN [ok |-> TRUE, val |-> res.items[idx + 1], err |-> ""]
            ELSE [ok |-> FALSE, val |-> [type |-> "none"], err |-> "IndexError"]
      [] res.type = "object" ->
            [ok |-> FALSE, val |-> [type |-> "none"], err |-> "KeyError"]
      [] OTHER -> [ok |-> FALSE, val |-> [type |-> "none"], err |-> "TypeError"]

\* mutant: a comment counts as sent only when it matches the lexicon
InListByLexicon(c, po) == contains_profanity(c)

\* line 151, comment in potentially_offensive: membership by value
InList(c, po) == \E j \in 1..Len(po) : po[j] = c

\* mutant: the parsed response indexed by the position of the comment
RECURSIVE ReconcileByPosition(_, _, _, _, _, _)
ReconcileByPosition(cs, po, res, prefilter, i, result_idx) ==
    IF i > Len(cs) THEN [ok |-> TRUE, val |-> <<>>, err |-> ""]
    ELSE IF InList(cs[i], po)
         THEN LET e == Subscript(res, i - 1) IN
              IF ~e.ok THEN [ok |-> FALSE, val |-> <<>>, err |-> e.err]
              ELSE LET rest == ReconcileByPosition(cs, po, res, prefilter,
                                                   i + 1, result_idx + 1)
                   IN IF rest.ok
                      THEN [ok |-> TRUE, val |-> <<e.val>> \o rest.val, err |-> ""]
                      ELSE rest
         ELSE LET rest == ReconcileByPosition(cs, po, res, prefilter,
                                              i + 1, result_idx)
              IN IF rest.ok
                 THEN [ok |-> TRUE,
                       val |-> <<DefaultVerdict(prefilter)>> \o rest.val, err |-> ""]
                 ELSE rest

\* lines 147-162: walk the comments from position i with result_idx res used
RECURSIVE Reconcile(_, _, _, _, _, _)
Reconcile(cs, po, res, prefilter, i, result_idx) ==
    IF i > Len(cs) THEN [ok |-> TRUE, val |-> <<>>, err |-> ""]
    ELSE IF InList(cs[i], po)
         THEN LET e == Subscript(res, result_idx) IN
              IF ~e.ok THEN [ok |-> FALSE, val |-> <<>>, err |-> e.err]
              ELSE LET rest == Reconcile(cs, po, res, prefilter,
                                         i + 1, result_idx + 1)
                   IN IF rest.ok
                      THEN [ok |-> TRUE, val |-> <<e.val>> \o rest.val, err |-> ""]
                      ELSE rest
         ELSE LET rest == Reconcile(cs, po, res, prefilter, i + 1, result_idx)
              IN IF rest.ok
                 THEN [ok |-> TRUE,
                       val |-> <<DefaultVerdict(prefilter)>> \o rest.val, err |-> ""]
                 ELSE rest

\* lines 136-162: what one attempt makes of the response r of the service:
\* whether the request was recorded, and the result or the error
AttemptOutcome(cs, po, prefilter, r) ==
    CASE r.kind = "raise" ->
            [ok |-> FALSE, recorded |-> FALSE, val |-> <<>>, err |-> "call failed"]
      [] r.kind = "blocked" ->
            [ok |-> FALSE, recorded |-> TRUE, val |-> <<>>, err |-> "no text"]
      [] OTHER ->
            LET parsed == JsonLoads(CleanText(r.tokens), r.payload) IN
            IF ~parsed.ok
            THEN [ok |-> FALSE, recorded |-> TRUE, val |-> <<>>, err |-> parsed.err]
            ELSE LET rec == Reconcile(cs, po, parsed.val, prefilter, 1, 0) IN
                 [ok |-> rec.ok, recorded |-> TRUE, val |-> rec.val, err |-> rec.err]

(***************************************************************************)
(* What the service may answer to a prompt of n comments, and what the     *)
(* user may type at the retry prompt                                       *)
(***************************************************************************)
Patterns == {"mixed", "badnone", "scalar"}

Wrappings ==
    { <<"J">>,
      <<"ws", "J", "ws">>,
      <<"fence_json", "ws", "J", "ws", "fence">>,
      <<"fence_json", "J">>,
      <<"fence", "ws", "J", "ws", "fence">> }

Payloads(n) ==
    {JInvalid, JObject, JString(n)}
    \cup {ArrayOf(p, len) : p \in Patterns, len \in {l \in {n - 1, n, n + 1} : l >= 0}}

Raise == [kind |-> "raise", tokens |-> <<>>, payload |-> JInvalid]
Blocked == [kind |-> "blocked", tokens |-> <<>>, payload |-> JInvalid]
TextOf(w, p) == [kind |-> "text", tokens |-> w, payload |-> p]

\* every shape of response
RichResponses(n) ==
    {Raise, Blocked} \cup {TextOf(w, p) : w \in Wrappings, p \in Payloads(n)}

\* a failing call, text that is no JSON, a well-formed array (bare or
\* fenced), a JSON string
PlainResponses(n) ==
    {Raise,
     TextOf(<<"J">>, JInvalid),
     TextOf(<<"J">>, ArrayOf("mixed", n)),
     TextOf(<<"fence_json", "ws", "J", "ws", "fence">>, ArrayOf("mixed", n)),
     TextOf(<<"J">>, JString(n))}

EOFError == "<EOFError>"
RichAnswers == {"y", "Y", "n", "N", "", "yes", EOFError}
PlainAnswers == {"y", "n", EOFError}

\* str.lower() on the answers above
Lower(s) ==
    CASE s = "Y" -> "y"
      [] s = "N" -> "n"
      [] s = "YES" -> "yes"
      [] OTHER -> s

(***************************************************************************)
(* Input files                                                             *)
(***************************************************************************)
RECURSIVE SeqsOf(_, _)
SeqsOf(S, n) ==
    IF n = 0 THEN {<<>>}
    ELSE LET shorter == SeqsOf(S, n - 1) IN
         shorter \cup {Append(q, x) : q \in {r \in shorter : Len(r) = n - 1}, x \in S}

\* every file of at most MaxLen comments
SmallFiles == SeqsOf(Texts, MaxLen)

\* row i of a long file: profanity spread over the file, or only in its
\* first batch
TextAt(kind, i) ==
    IF kind = "spread"
    THEN (IF i % 3 = 0 THEN "slur" ELSE IF i % 7 = 3 THEN "damn" ELSE "clean")
    ELSE (IF i <= batch_size /\ i % 4 = 2 THEN "damn" ELSE "clean")

LongFile(kind, total) == [i \in 1..total |-> TextAt(kind, i)]

FileSizes == {0, 1, batch_size, batch_size + 5, 2 * batch_size + 1, 5 * batch_size + 5}

LongFiles == {LongFile(kind, total) : kind \in {"spread", "front"}, total \in FileSizes}

(***************************************************************************)
(* Observer                                                                *)
(***************************************************************************)
ObsInit ==
    [faults |-> 0,       \* failing responses so far in the run
     calls |-> 0,        \* external calls of the current process_batch
     prompts |-> 0,      \* retry prompts of the current process_batch
     waits |-> 0,        \* retry waits of the current process_batch
     answer |-> "",      \* what was typed at the last of those prompts
     path |-> "none",    \* how the current process_batch ended
     response |-> <<>>,  \* the parsed array the returned list was built from
     log |-> <<>>,       \* one entry per finished batch iteration of the call
     runs |-> 1]         \* calls of analyze_all_comments, the current one included

(***************************************************************************)
(* State after construction                                                *)
(***************************************************************************)
NoTable == [set |-> FALSE, rows |-> <<>>]
Table(rows) == [set |-> TRUE, rows |-> rows]
NoFile == [exists |-> FALSE, rows |-> <<>>]
File(rows) == [exists |-> TRUE, rows |-> rows]

\* main has not been entered, no comparison has been asked for
NoMain == [at |-> "absent"]
NoComparison == [at |-> "absent"]

\* the service has not been invoked: at holds the instants of the
\* invocations, recorded counts those followed by record_request, detours
\* those answered otherwise than the steady response
NoCalls == [at |-> <<>>, recorded |-> 0, detours |-> 0]

\* the file f on disk, the clock at t and the fields an analyzer has after
\* __init__, with the caller at position p
FieldsAt(f, mb, pf, p, t) ==
    /\ now = t
    /\ rate_limiter = RateLimitInit(t)
    /\ last_call = "init" /\ can_ret = TRUE
    /\ gate_pre = GatePre(RateLimitInit(t))
    /\ csv = f /\ max_batches = mb /\ use_prefilter = pf
    /\ data = <<>> /\ analyzed_data = NoTable /\ checkpoint = NoFile
    /\ pc = p /\ results = <<>> /\ batch_num = 0 /\ num_batches = 0
    /\ pb = "idle" /\ comments = <<>> /\ potentially_offensive = <<>>
    /\ retry_count = 0 /\ last_error = "None" /\ ret = <<>>
    /\ obs = ObsInit

\* the same with the clock at 0
Fields(f, mb, pf, p) == FieldsAt(f, mb, pf, p, 0)

\* CommentAnalyzer.__init__ on the file f
Constructed(f, mb, pf) ==
    Fields(f, mb, pf, "new") /\ cli = NoMain /\ cmp = NoComparison /\ svc = NoCalls

Init == \E f \in LongFiles, mb \in 0..MaxBatches, pf \in BOOLEAN : Constructed(f, mb, pf)

InitBatch == \E f \in SmallFiles, pf \in BOOLEAN : Constructed(f, 1, pf)

InitQuota == Constructed(<<>>, 1, TRUE)

(***************************************************************************)
(* RateLimit driven directly, with the clock moving between the calls      *)
(***************************************************************************)
Instants ==
    {d * SecondsPerDay + o : d \in 0..MaxDays,
                             o \in {0, 59, 60, 120, SecondsPerDay - 30}}

\* the clock moves on to a later instant
Tick ==
    /\ \E t \in Instants : t > now /\ now' = t
    /\ last_call' = "tick"
    /\ UNCHANGED <<rate_limiter, can_ret, gate_pre, cfgvars, frontvars, runvars, pbvars, obs>>

\* a caller asks the gate
CanMakeRequest ==
    LET c == can_make_request(rate_limiter, now) IN
    /\ rate_limiter' = c.rl
    /\ can_ret' = c.ret
    /\ last_call' = "can_make_request"
    /\ gate_pre' = GatePre(rate_limiter)
    /\ UNCHANGED <<now, cfgvars, frontvars, runvars, pbvars, obs>>

\* the guards keep the counters, which nothing else bounds, one step past
\* their ceilings
RecordRequest ==
    /\ rate_limiter.requests_today <= DailyLimit
    /\ rate_limiter.requests_this_minute <= PerMinuteLimit
    /\ rate_limiter' = record_request(rate_limiter, now)
    /\ last_call' = "record_request"
    /\ UNCHANGED <<now, can_ret, gate_pre, cfgvars, frontvars, runvars, pbvars, obs>>

NextQuota == Tick \/ CanMakeRequest \/ RecordRequest

SpecQuota == InitQuota /\ [][NextQuota]_vars

(***************************************************************************)
(* CommentAnalyzer.load_data and analyze_all_comments                      *)
(***************************************************************************)
\* mutant: the file is cut to one batch whatever max_batches is
head_one_batch(f, mb) ==
    IF Len(f) > batch_size THEN SubSeq(f, 1, batch_size) ELSE f

\* lines 80-84: data.head(max_comments) when the file is longer
head(f, mb) ==
    LET max_comments == batch_size * mb IN
    IF Len(f) > max_comments THEN SubSeq(f, 1, max_comments) ELSE f

\* lines 73-92: CommentAnalyzer.load_data
LoadData ==
    /\ pc = "new"
    /\ data' = head(csv, max_batches)
    /\ pc' = "loaded"
    /\ UNCHANGED <<rlvars, cfgvars, frontvars, analyzed_data, checkpoint, results, batch_num,
                   num_batches, pbvars, obs>>

\* line 192
NumBatches(total, mb) == Min(mb, (total + batch_size - 1) \div batch_size)

\* lines 190-195: the start of analyze_all_comments
AnalyzeBegin ==
    /\ pc = "loaded"
    /\ results' = <<>>
    /\ num_batches' = NumBatches(Len(data), max_batches)
    /\ batch_num' = 0
    /\ pc' = "loop"
    /\ UNCHANGED <<rlvars, cfgvars, frontvars, data, analyzed_data, checkpoint, pbvars, obs>>

\* line 198
StartIdx(b) == b * batch_size

\* mutant: the slice starts one row late
BatchCommentsShifted(d, b) ==
    SubSeq(d, StartIdx(b) + 2, Min(StartIdx(b) + batch_size, Len(d)))

\* lines 198-200: data['comment_text'].iloc[start_idx:end_idx].tolist()
BatchComments(d, b) ==
    SubSeq(d, StartIdx(b) + 1, Min(StartIdx(b) + batch_size, Len(d)))

\* lines 117-122
ShortCircuit(cs) == [i \in 1..Len(cs) |-> ShortCircuitVerdict]

\* lines 197-207 and 110-128: the loop takes the next batch and calls
\* process_batch, which pre-filters and returns at once when nothing is left
BatchBegin ==
    /\ pc = "loop" /\ batch_num < num_batches
    /\ LET cs == BatchComments(data, batch_num)
           po == IF use_prefilter THEN pre_filter_comments(cs) ELSE cs
       IN /\ comments' = cs
          /\ potentially_offensive' = po
          /\ retry_count' = 0
          /\ last_error' = "None"
          /\ IF use_prefilter /\ po = <<>>
             THEN /\ ret' = ShortCircuit(cs)
                  /\ pb' = "returned"
                  /\ obs' = [obs EXCEPT !.calls = 0, !.prompts = 0, !.waits = 0,
                                        !.answer = "", !.response = <<>>,
                                        !.path = "short_circuit"]
             ELSE /\ ret' = <<>>
                  /\ pb' = "gate"
                  /\ obs' = [obs EXCEPT !.calls = 0, !.prompts = 0, !.waits = 0,
                                        !.answer = "", !.response = <<>>,
                                        !.path = "none"]
    /\ pc' = "batch"
    /\ UNCHANGED <<rlvars, cfgvars, frontvars, data, analyzed_data, checkpoint, results,
                   batch_num, num_batches>>

(***************************************************************************)
(* CommentAnalyzer.process_batch: the retry loop                           *)
(***************************************************************************)
\* mutant: the clock stands still while the gate is closed
PollClockStopped ==
    /\ pb = "gate"
    /\ LET c == can_make_request(rate_limiter, now) IN
       /\ ~c.ret
       /\ rate_limiter' = c.rl
       /\ can_ret' = c.ret
       /\ gate_pre' = GatePre(rate_limiter)
    /\ last_call' = "can_make_request"
    /\ UNCHANGED <<now, cfgvars, frontvars, runvars, pbvars, obs>>

\* lines 132-133: the quota gate is closed, sleep and ask again
Poll ==
    /\ pb = "gate"
    /\ LET c == can_make_request(rate_limiter, now) IN
       /\ ~c.ret
       /\ rate_limiter' = c.rl
       /\ can_ret' = c.ret
       /\ gate_pre' = GatePre(rate_limiter)
    /\ last_call' = "can_make_request"
    /\ now' = now + PollSleep
    /\ UNCHANGED <<cfgvars, frontvars, runvars, pbvars, obs>>

\* the seconds an external call takes
CallSeconds == {1}

\* a response that costs the run one of its MaxFaults
IsFault(out) == ~out.ok \/ \E i \in 1..Len(out.val) : out.val[i].type # "dict"

\* mutant: one attempt more
AttemptsRemainOneMore(n) == n < max_retries + 1

\* lines 130 and 169: retry_count < max_retries
AttemptsRemain(n) == n < max_retries

\* lines 132-178: one pass of the retry loop with the gate open and the
\* response r arriving after d seconds
Pass(r, d) ==
    LET c == can_make_request(rate_limiter, now)
        out == AttemptOutcome(comments, potentially_offensive, use_prefilter, r)
        n == retry_count + 1
    IN
    /\ pb = "gate"
    /\ c.ret
    /\ now' = now + d
    /\ rate_limiter' = IF out.recorded THEN record_request(c.rl, now + d) ELSE c.rl
    /\ can_ret' = c.ret
    /\ gate_pre' = GatePre(rate_limiter)
    /\ last_call' = IF out.recorded THEN "record_request" ELSE "can_make_request"
    /\ IF out.ok
       THEN /\ ret' = out.val
            /\ pb' = "returned"
            /\ obs' = [obs EXCEPT !.calls = @ + 1, !.path = "parsed",
                                  !.response = r.payload.items,
                                  !.faults = IF IsFault(out) THEN @ + 1 ELSE @]
            /\ UNCHANGED <<retry_count, last_error>>
       ELSE /\ retry_count' = n
            /\ last_error' = out.err
            /\ IF AttemptsRemain(n)
               THEN /\ pb' = "prompt"
                    /\ ret' = ret
                    /\ obs' = [obs EXCEPT !.calls = @ + 1, !.prompts = @ + 1,
                                          !.faults = @ + 1]
               ELSE /\ pb' = "returned"
                    /\ ret' = ErrorResults(comments, n, out.err)
                    /\ obs' = [obs EXCEPT !.calls = @ + 1, !.faults = @ + 1,
                                          !.path = "exhausted"]
    /\ UNCHANGED <<cfgvars, cli, cmp, runvars, comments, potentially_offensive>>

\* a pass of the retry loop in the runs that spend at most MaxFaults passes
\* on failing responses
AttemptWith(r, d) ==
    /\ IsFault(AttemptOutcome(comments, potentially_offensive, use_prefilter, r))
          => obs.faults < MaxFaults
    /\ Pass(r, d)
    /\ UNCHANGED svc

Attempt ==
    \E r \in PlainResponses(Len(potentially_offensive)), d \in CallSeconds :
        AttemptWith(r, d)

AttemptRich ==
    \E r \in RichResponses(Len(potentially_offensive)), d \in CallSeconds :
        AttemptWith(r, d)

\* mutant: only a typed n stops the retries
DeclinesOnlyN(a) == Lower(a) = "n"

\* lines 171-172: user_input = input(...).lower(); user_input != 'y'
Declines(a) == Lower(a) # "y"

\* lines 171-176: the answer a arrives at the retry prompt
AnswerWith(a) ==
    /\ pb = "prompt"
    /\ IF a = EOFError
       THEN \* input() raises inside the except clause: process_batch raises
            /\ pb' = "raised"
            /\ obs' = [obs EXCEPT !.path = "raised"]
            /\ UNCHANGED <<now, ret>>
       ELSE IF Declines(a)
       THEN /\ pb' = "returned"
            /\ ret' = ErrorResults(comments, retry_count, last_error)
            /\ obs' = [obs EXCEPT !.answer = a, !.path = "declined"]
            /\ UNCHANGED now
       ELSE /\ pb' = "gate"
            /\ now' = now + RetrySleep
            /\ obs' = [obs EXCEPT !.answer = a, !.waits = @ + 1]
            /\ UNCHANGED ret
    /\ UNCHANGED <<rate_limiter, last_call, can_ret, gate_pre, cfgvars, frontvars, runvars,
                   comments, potentially_offensive, retry_count, last_error>>

Answer == \E a \in PlainAnswers : AnswerWith(a)

AnswerRich == \E a \in RichAnswers : AnswerWith(a)

(***************************************************************************)
(* analyze_all_comments: the rest of the iteration                         *)
(***************************************************************************)
\* f"user_{start_idx + i}"
Username(id) == <<"user_", id>>

\* mutant: comment_id counts from the start of the batch
RowBatchLocal(v, start_idx, i, text) ==
    [comment_id |-> i, username |-> Username(i),
     original_comment |-> text, is_offensive |-> v.is_offensive,
     offense_type |-> v.offense_type, explanation |-> v.explanation,
     severity |-> v.severity]

\* lines 210-212: the verdict v of the i-th comment (0-based) of the batch
Row(v, start_idx, i, text) ==
    [comment_id |-> start_idx + i, username |-> Username(start_idx + i),
     original_comment |-> text, is_offensive |-> v.is_offensive,
     offense_type |-> v.offense_type, explanation |-> v.explanation,
     severity |-> v.severity]

\* lines 209-212 raise when an element takes no item assignment or when
\* there are more results than comments
BookkeepingRaises(rs, cs) ==
    \/ \E i \in 1..Len(rs) : rs[i].type # "dict"
    \/ Len(rs) > Len(cs)

\* mutant: the last verdict of the batch gets no row
RowsButLast(rs, cs, start_idx) ==
    [i \in 1..(Len(rs) - 1) |-> Row(rs[i], start_idx, i - 1, cs[i])]

\* lines 209-214: all_results.extend(batch_results)
Rows(rs, cs, start_idx) == [i \in 1..Len(rs) |-> Row(rs[i], start_idx, i - 1, cs[i])]

\* mutant: the rows of the batch replace the rows before them
ExtendReplacing(all, new) == new

\* line 212: results.extend(batch_results)
Extend(all, new) == all \o new

\* mutant: the checkpoint holds only the rows of the last batch
CheckpointLastBatch(all, new) == File(new)

\* lines 216-217 and 223-224: save_results("partial_results.csv")
Checkpoint(all, new) == File(all)

\* mutant: the exception ends the loop
AfterExceptionAbort(b, nb) == nb

\* line 226: continue
AfterException(b, nb) == b + 1

\* lines 209-230: process_batch has returned or raised
BatchEnd ==
    /\ pc = "batch" /\ pb \in {"returned", "raised"}
    /\ LET start_idx == StartIdx(batch_num)
           raised == pb = "raised" \/ BookkeepingRaises(ret, comments)
           new == IF raised THEN <<>> ELSE Rows(ret, comments, start_idx)
           all == Extend(results, new)
           paced == ~raised /\ batch_num < num_batches - 1
       IN /\ results' = all
          /\ analyzed_data' = Table(all)
          /\ checkpoint' = Checkpoint(all, new)
          /\ now' = IF paced THEN now + PaceSleep ELSE now
          /\ batch_num' = IF raised THEN AfterException(batch_num, num_batches)
                          ELSE batch_num + 1
          /\ obs' = [obs EXCEPT !.log = Append(@,
                        [batch |-> batch_num, start |-> start_idx,
                         size |-> Len(comments), raised |-> raised,
                         path |-> obs.path, before |-> Len(results),
                         saved |-> Len(all), paced |-> paced])]
    /\ pc' = "loop"
    /\ pb' = "idle"
    /\ UNCHANGED <<rate_limiter, last_call, can_ret, gate_pre, cfgvars, frontvars, data,
                   num_batches, comments, potentially_offensive, retry_count,
                   last_error, ret>>

\* lines 232-233: the loop is over
AnalyzeEnd ==
    /\ pc = "loop" /\ batch_num >= num_batches
    /\ analyzed_data' = Table(results)
    /\ pc' = "done"
    /\ UNCHANGED <<rlvars, cfgvars, frontvars, data, checkpoint, results, batch_num,
                   num_batches, pbvars, obs>>

\* The quota gate stays open in the runs below: they record fewer than
\* PerMinuteLimit requests, so Poll has no step to take in them.
GateOpen == pb = "gate" => can_make_request(rate_limiter, now).ret

Next ==
    \/ LoadData \/ AnalyzeBegin \/ BatchBegin \/ Attempt \/ Answer
    \/ BatchEnd \/ AnalyzeEnd

Spec == Init /\ [][Next]_vars

NextBatch ==
    \/ LoadData \/ AnalyzeBegin \/ BatchBegin \/ AttemptRich \/ AnswerRich
    \/ BatchEnd \/ AnalyzeEnd

SpecBatch == InitBatch /\ [][NextBatch]_vars

(***************************************************************************)
(* analyze_all_comments called again on the same analyzer                  *)
(***************************************************************************)
\* lines 187-195: a further call starts with results = [], while
\* analyzed_data and partial_results.csv still hold what the call before
\* left
AnalyzeAgain ==
    /\ pc = "done" /\ obs.runs < MaxRuns
    /\ results' = <<>>
    /\ num_batches' = NumBatches(Len(data), max_batches)
    /\ batch_num' = 0
    /\ pc' = "loop"
    /\ obs' = [obs EXCEPT !.runs = @ + 1, !.log = <<>>]
    /\ UNCHANGED <<rlvars, cfgvars, frontvars, data, analyzed_data, checkpoint, pbvars>>

\* two batches, of 20 and of 5 comments
InitRerun ==
    \E pf \in BOOLEAN : Constructed(LongFile("spread", batch_size + 5), 2, pf)

NextRerun ==
    \/ LoadData \/ AnalyzeBegin \/ BatchBegin \/ Attempt \/ Answer
    \/ BatchEnd \/ AnalyzeEnd \/ AnalyzeAgain

SpecRerun == InitRerun /\ [][NextRerun]_vars

(***************************************************************************)
(* Runs that reach the per-minute ceiling                                  *)
(***************************************************************************)
\* A batch whose response is an array of strings raises at line 210 after
\* its request was recorded, and line 226 goes on to the next batch without
\* the pause of lines 228-230: PerMinuteLimit such batches in a row close
\* the gate.
Steady(n) == TextOf(<<"J">>, JString(n))

\* one batch more than the gate lets through in a minute
PollBatches == PerMinuteLimit + 1

\* lines 132-178 with the service watched: the steady response, or, in the
\* first k batches and at most max_retries times, any other one
AttemptWatched(k) ==
    \E r \in PlainResponses(Len(potentially_offensive)), d \in CallSeconds :
        LET out == AttemptOutcome(comments, potentially_offensive, use_prefilter, r)
            detour == r # Steady(Len(potentially_offensive))
        IN
        /\ detour => (svc.detours < max_retries /\ batch_num < k)
        /\ Pass(r, d)
        /\ svc' = [at |-> Append(svc.at, now),
                   recorded |-> svc.recorded + (IF out.recorded THEN 1 ELSE 0),
                   detours |-> svc.detours + (IF detour THEN 1 ELSE 0)]

\* line 56: use_prefilter defaults to True
AttemptPoll == AttemptWatched(MaxBatches)

InitPoll ==
    Constructed(LongFile("spread", batch_size * PollBatches), PollBatches, TRUE)

NextPoll ==
    \/ LoadData \/ AnalyzeBegin \/ BatchBegin \/ Poll \/ AttemptPoll \/ Answer
    \/ BatchEnd \/ AnalyzeEnd

SpecPoll == InitPoll /\ [][NextPoll]_vars

(***************************************************************************)
(* Runs that reach the daily ceiling                                       *)
(***************************************************************************)
\* five minutes before midnight
Evening == SecondsPerDay - 5 * MinuteSeconds

\* one batch more than the gate lets through on one date
DailyBatches == DailyLimit + 1

\* an analyzer constructed in the evening on a file of DailyBatches batches
InitDaily ==
    /\ FieldsAt(LongFile("spread", batch_size * DailyBatches), DailyBatches,
                TRUE, "new", Evening)
    /\ cli = NoMain /\ cmp = NoComparison /\ svc = NoCalls

AttemptDaily == AttemptWatched(1)

NextDaily ==
    \/ LoadData \/ AnalyzeBegin \/ BatchBegin \/ Poll \/ AttemptDaily \/ Answer
    \/ BatchEnd \/ AnalyzeEnd

SpecDaily == InitDaily /\ [][NextDaily]_vars

\* every retry prompt is answered: input() returns what was typed
AnswerTyped == \E a \in PlainAnswers \ {EOFError} : AnswerWith(a)

NextFair ==
    \/ LoadData \/ AnalyzeBegin \/ BatchBegin \/ Poll \/ AttemptDaily
    \/ AnswerTyped \/ BatchEnd \/ AnalyzeEnd

\* lines 132-178 seen from outside: with the gate open the pass leaves the
\* gate, for the prompt or for the end of process_batch
Invoked ==
    /\ pb = "gate" /\ can_make_request(rate_limiter, now).ret
    /\ pb' \in {"prompt", "returned"}

\* the steps around the external call
Around ==
    \/ LoadData \/ AnalyzeBegin \/ BatchBegin \/ Poll \/ AnswerTyped
    \/ BatchEnd \/ AnalyzeEnd

\* The program is one thread: it takes its next step whenever it has one,
\* time.sleep and generate_content return, and the prompt is answered.
SpecFair ==
    InitDaily /\ [][NextFair]_vars /\ WF_vars(Around) /\ WF_pb(Invoked)

(***************************************************************************)
(* cli.main                                                                *)
(***************************************************************************)
\* the defaults of --max-batches and --top-severe
DefaultMaxBatches == 50
DefaultTopSevere == 10

\* a path argument: not given, given and not on disk, given and on disk
Paths == {"none", "missing", "present"}

\* parser.parse_args() and the environment: api_key is args.api_key or
\* GOOGLE_API_KEY, output_exists says whether args.output is on disk when
\* main starts
ArgSets ==
    [input_file : Paths, api_key : BOOLEAN, charts : BOOLEAN, compare : Paths,
     top_severe : {0, DefaultTopSevere}, filter_type : {"none", "hate speech"},
     no_prefilter : BOOLEAN, max_batches : {1, DefaultMaxBatches},
     output_exists : BOOLEAN]

\* the input files of the runs of main
CliFiles == {<<>>, <<"slur">>, <<"clean", "slur">>}

\* what is typed at the prompt of line 46
MainAnswers == {"yes", "YES", "no", "y", EOFError}

\* main is in its try block
Running(at, a) == [at |-> at, args |-> a]

\* main has returned code; error is the exception the except clause of line
\* 142 caught, saved says whether save_results(args.output) had run, answer
\* is what was typed at the prompt of line 46
Exit(a, code, error, saved, answer) ==
    [at |-> "exit", args |-> a, code |-> code, caught |-> error # "none",
     error |-> error, saved |-> saved, answer |-> answer]

InitCli ==
    \E a \in ArgSets, f \in CliFiles :
        /\ a.input_file # "present" => f = <<>>
        /\ Fields(f, 0, TRUE, "absent")
        /\ cli = Running("main", a)
        /\ cmp = NoComparison
        /\ svc = NoCalls

\* lines 13-16: validate_file_path raises for a path that is not on disk
\* (os.path.exists(None) raises TypeError)
validate_file_path(path) ==
    CASE path = "present" -> "none"
      [] path = "missing" -> "FileNotFoundError"
      [] OTHER -> "TypeError"

\* lines 41-45 and 88-102: the charts-only test, then the normal flow up to
\* the construction of the analyzer
MainBegin ==
    /\ cli.at = "main"
    /\ LET a == cli.args IN
       IF a.charts /\ a.input_file = "none"
       THEN /\ cli' = Running("prompt", a)
            /\ UNCHANGED <<pc, max_batches, use_prefilter>>
       ELSE IF validate_file_path(a.input_file) # "none"
       THEN /\ cli' = Exit(a, 1, validate_file_path(a.input_file), FALSE, "")
            /\ UNCHANGED <<pc, max_batches, use_prefilter>>
       ELSE IF ~a.api_key
       THEN /\ cli' = Exit(a, 1, "ValueError", FALSE, "")
            /\ UNCHANGED <<pc, max_batches, use_prefilter>>
       ELSE /\ cli' = Running("analyzing", a)
            /\ pc' = "new"
            /\ max_batches' = a.max_batches
            /\ use_prefilter' = ~a.no_prefilter
    /\ UNCHANGED <<rlvars, csv, data, analyzed_data, checkpoint, results, batch_num,
                   num_batches, pbvars, obs, cmp, svc>>

\* lines 46-86: the charts-only flow after the answer w; CommentAnalyzer is
\* constructed without an api_key, so __init__ raises ValueError (line 68 of
\* load_data.py)
MainAnswerWith(w) ==
    /\ cli.at = "prompt"
    /\ LET a == cli.args IN
       cli' = IF w = EOFError THEN Exit(a, 1, "EOFError", FALSE, w)
              ELSE IF Lower(w) # "yes" THEN Exit(a, 1, "none", FALSE, w)
              ELSE IF ~a.output_exists THEN Exit(a, 1, "FileNotFoundError", FALSE, w)
              ELSE Exit(a, 1, "ValueError", FALSE, w)
    /\ UNCHANGED <<rlvars, cfgvars, runvars, pbvars, obs, cmp, svc>>

MainAnswer == \E w \in MainAnswers : MainAnswerWith(w)

\* lines 234-249: generate_report indexes the column is_offensive, which a
\* DataFrame made of no rows does not have
GenerateReportRaises(table) == table.rows = <<>>

\* lines 107-146: analyze_all_comments has returned; display_top_severe_comments
\* is not a method of CommentAnalyzer (commented out, lines 258-281 of
\* load_data.py), so calling it raises AttributeError
MainFinish ==
    /\ cli.at = "analyzing" /\ pc = "done"
    /\ LET a == cli.args IN
       cli' = IF GenerateReportRaises(analyzed_data)
              THEN Exit(a, 1, "KeyError", FALSE, "")
              ELSE IF a.charts /\ a.compare # "none"
                      /\ validate_file_path(a.compare) # "none"
              THEN Exit(a, 1, validate_file_path(a.compare), TRUE, "")
              ELSE IF a.top_severe > 0 THEN Exit(a, 1, "AttributeError", TRUE, "")
              ELSE Exit(a, 0, "none", TRUE, "")
    /\ UNCHANGED <<rlvars, cfgvars, runvars, pbvars, obs, cmp, svc>>

NextCli ==
    \/ MainBegin \/ MainAnswer
    \/ LoadData \/ AnalyzeBegin \/ BatchBegin \/ Attempt \/ Answer
    \/ BatchEnd \/ AnalyzeEnd
    \/ MainFinish

SpecCli == InitCli /\ [][NextCli]_vars

(***************************************************************************)
(* HateSpeechVisualizer.compare_prefilter_results                          *)
(***************************************************************************)
\* a float, kept as the quotient of two integers; den > 0
Frac(a, b) == [num |-> a, den |-> b]
Zero == Frac(0, 1)
FracEq(x, y) == x.num * y.den = y.num * x.den
FracMul(x, y) == Frac(x.num * y.num, x.den * y.den)
FracAdd(x, y) == Frac(x.num * y.den + y.num * x.den, x.den * y.den)
\* x / y for y > 0
FracDiv(x, y) == Frac(x.num * y.den, x.den * y.num)

\* n_samples: None, or a number
NoneSamples == [given |-> FALSE, n |-> 0]
Samples(n) == [given |-> TRUE, n |-> n]

\* lines 23-25
n_samples(d, o, n) ==
    LET min_records == Min(Len(d), Len(o)) IN
    IF ~n.given \/ n.n > min_records THEN min_records ELSE n.n

\* lines 27-31: pd.merge(..., on='comment_id'), the inner join in the order
\* of the left table
Merge(d, o) ==
    LET InO(r) == \E j \in 1..Len(o) : o[j].comment_id = r.comment_id
        left == SelectSeq(d, InO)
        Right(id) == o[CHOOSE j \in 1..Len(o) : o[j].comment_id = id]
    IN [k \in 1..Len(left) |->
           [comment_id |-> left[k].comment_id,
            is_offensive_filtered |-> left[k].is_offensive,
            is_offensive_original |-> Right(left[k].comment_id).is_offensive]]

\* line 32: DataFrame.head(n)
head_rows(m, n) == SubSeq(m, 1, Min(n, Len(m)))

\* lines 35-46: the cell of the confusion matrix, 0 when the matrix lacks
\* the row or the column
Cell(m, f, o) ==
    Cardinality({k \in 1..Len(m) :
                    m[k].is_offensive_filtered = f /\ m[k].is_offensive_original = o})

\* line 98: accuracy = (tp + tn) / n_samples
Accuracy(tp, tn, n) == Frac(tp + tn, n)

\* lines 19-46 and 98-101 on the tables d and o (o.set false: no original
\* data) with the argument n
compare_prefilter_results(d, o, n) ==
    IF ~o.set THEN [raised |-> "ValueError"]
    ELSE
    LET ns == n_samples(d, o.rows, n)
        merged == head_rows(Merge(d, o.rows), ns)
        tp == Cell(merged, TRUE, TRUE)
        fp == Cell(merged, TRUE, FALSE)
        fn == Cell(merged, FALSE, TRUE)
        tn == Cell(merged, FALSE, FALSE)
    IN IF ns = 0 THEN [raised |-> "ZeroDivisionError"]
       ELSE
       LET precision == IF tp + fp > 0 THEN Frac(tp, tp + fp) ELSE Zero
           recall == IF tp + fn > 0 THEN Frac(tp, tp + fn) ELSE Zero
           sum == FracAdd(precision, recall)
           f1 == IF sum.num > 0
                 THEN FracDiv(FracMul(Frac(2, 1), FracMul(precision, recall)), sum)
                 ELSE Zero
       IN [raised |-> "no", n_samples |-> ns, merged |-> merged,
           tp |-> tp, fp |-> fp, fn |-> fn, tn |-> tn,
           accuracy |-> Accuracy(tp, tn, ns),
           precision |-> precision, recall |-> recall, f1 |-> f1]

\* the Result Tables with the rows of the comments ids, in order, each
\* offensive or not
TablesOver(ids) ==
    LET n == Cardinality(ids)
        Nth(k) == CHOOSE id \in ids : Cardinality({j \in ids : j < id}) = k - 1
    IN {[k \in 1..n |-> [comment_id |-> Nth(k), is_offensive |-> flags[k]]] :
           flags \in [1..n -> BOOLEAN]}

\* every table over comment ids below MaxLen
ResultTables == UNION {TablesOver(ids) : ids \in SUBSET (0..(MaxLen - 1))}

InitCompare ==
    /\ Fields(<<>>, 0, TRUE, "absent")
    /\ cli = NoMain
    /\ svc = NoCalls
    /\ \E d \in ResultTables,
          o \in {NoTable} \cup {Table(t) : t \in ResultTables},
          n \in {NoneSamples} \cup {Samples(k) : k \in 1..MaxLen} :
          cmp = [at |-> "called", data |-> d, original_data |-> o, n_samples |-> n]

Compare ==
    /\ cmp.at = "called"
    /\ cmp' = [at |-> "returned", data |-> cmp.data,
               original_data |-> cmp.original_data, n_samples |-> cmp.n_samples,
               out |-> compare_prefilter_results(cmp.data, cmp.original_data,
                                                 cmp.n_samples)]
    /\ UNCHANGED <<rlvars, cfgvars, runvars, pbvars, obs, cli, svc>>

NextCompare == Compare

SpecCompare == InitCompare /\ [][NextCompare]_vars

(***************************************************************************)
(* process_batch                                                           *)
(***************************************************************************)
\* C1: whenever process_batch has returned, by whichever path and with the
\* pre-filter enabled or disabled, the returned list has as many verdicts as
\* the batch has comments.
C1_LengthPreserved == pb = "returned" => Len(ret) = Len(comments)

\* C1 witness: a return after two failed attempts and a response with a
\* surplus element, for a batch the pre-filter split.
C1_Witness ==
    /\ pb = "returned" /\ obs.path = "parsed" /\ use_prefilter
    /\ retry_count = 2
    /\ Len(comments) = 3 /\ Len(potentially_offensive) = 2
    /\ Len(obs.response) = 3

\* whether the comment at position i of the batch is sent to the service
Sent(i) == use_prefilter => comments[i] \in Lexicon

\* how many comments up to position i are sent
Rank(i) == Cardinality({j \in 1..i : Sent(j)})

\* C2: on a successful attempt the comments sent are the input comments that
\* the pre-filter selects (all of them when it is disabled), in input order;
\* the k-th of them receives the k-th element of the parsed response, and
\* every other comment receives the default verdict at its own position.
C2_OrderPreserved ==
    (pb = "returned" /\ obs.path = "parsed") =>
        /\ Len(potentially_offensive) = Rank(Len(comments))
        /\ \A i \in 1..Len(comments) :
              Sent(i) => potentially_offensive[Rank(i)] = comments[i]
        /\ Len(ret) = Len(comments)
        /\ \A i \in 1..Len(comments) :
              IF Sent(i)
              THEN ret[i] = obs.response[Rank(i)]
              ELSE /\ ret[i].is_offensive = FALSE
                   /\ ret[i].offense_type = "none"
                   /\ ret[i].severity = 0

\* C2 witness: a duplicate comment around a clean one; the second copy got
\* the second element of the response.
C2_Witness ==
    /\ pb = "returned" /\ obs.path = "parsed" /\ use_prefilter
    /\ comments = <<"slur", "clean", "slur">>
    /\ ret[3] = obs.response[2] /\ ret[3] # ret[1]
    /\ ret[2].offense_type = "none"

\* a verdict marked as the error sentinel
IsSentinel(v) == v.offense_type = "error" /\ v.is_offensive = FALSE /\ v.severity = 0

\* the entries of the log whose batch ran out of attempts
Exhausted == {k \in 1..Len(obs.log) : obs.log[k].path = "exhausted"}

\* C3: when all 3 attempts of a process_batch call fail and the user
\* confirmed both retries, every verdict returned is the error sentinel
\* (offense_type error, not offensive, severity 0.0); the batch is kept in the
\* table as such rows and the loop goes on to the next batch: a finished run
\* has iterated every batch.
C3_RetryExhaustion ==
    /\ (pb = "returned" /\ obs.path = "exhausted") =>
          /\ retry_count = max_retries /\ obs.calls = max_retries
          /\ obs.waits = max_retries - 1
          /\ Len(ret) = Len(comments)
          /\ \A i \in 1..Len(ret) : IsSentinel(ret[i])
    /\ \A k \in Exhausted :
          LET e == obs.log[k] IN
          /\ ~e.raised /\ e.saved = e.before + e.size
          /\ \A j \in (e.before + 1)..e.saved : IsSentinel(results[j])
          /\ (pc = "loop" /\ k = Len(obs.log)) => batch_num = e.batch + 1
    /\ pc = "done" => Len(obs.log) = num_batches

\* C3 witness: a run has finished whose first batch ran out of attempts and
\* whose second batch was classified.
C3_Witness ==
    /\ pc = "done" /\ Len(obs.log) >= 2
    /\ obs.log[1].path = "exhausted" /\ obs.log[2].path = "parsed"
    /\ ~obs.log[2].raised
    /\ IsSentinel(results[1]) /\ ~IsSentinel(results[Len(results)])

\* a step in which the retry prompt was answered
Answered == pb = "prompt" /\ pb' \in {"gate", "returned"}

\* what a declined prompt leads to: no call, no wait, the sentinel for every
\* comment
DeclinedStep ==
    /\ pb' = "returned"
    /\ now' = now /\ obs'.calls = obs.calls /\ obs'.waits = obs.waits
    /\ rate_limiter' = rate_limiter
    /\ Len(ret') = Len(comments)
    /\ \A i \in 1..Len(ret') : IsSentinel(ret'[i])

\* the retry-declined contract, for the set Yes of answers taken as a yes:
\* any other answer ends process_batch as DeclinedStep says; the prompt is
\* issued only while attempts remain; the retry wait follows only a yes
RetryContract(Yes) ==
    /\ (Answered /\ obs'.answer \notin Yes) => DeclinedStep
    /\ pb' = "prompt" => (retry_count' < max_retries /\ obs'.prompts < max_retries)
    /\ obs'.waits > obs.waits =>
          (Answered /\ obs'.answer \in Yes /\ now' = now + RetrySleep)
    /\ (pb' = "returned" /\ obs'.path = "declined") =>
          (obs'.calls = retry_count' /\ obs'.waits = retry_count' - 1)

\* C4 as stated: any answer other than the string y makes process_batch
\* return the full-length error sentinel with no further external call and no
\* further wait; the prompt is issued only while attempts remain, and the
\* 5-second retry wait happens only after the answer y.
C4_AsStated == [][RetryContract({"y"})]_vars

\* C4: an answer other than y or Y (the answer is lowercased before it is
\* compared) makes process_batch return the full-length error sentinel with
\* no further external call and no further wait; the prompt is issued only
\* while attempts remain, and the 5-second retry wait happens only after an
\* answer y or Y.
C4_RetryDeclined == [][RetryContract({"y", "Y"})]_vars

\* C4 witness: the second prompt was answered with an empty line and
\* process_batch returned.
C4_Witness ==
    /\ pb = "returned" /\ obs.path = "declined" /\ obs.answer = ""
    /\ retry_count = 2 /\ obs.calls = 2 /\ obs.waits = 1

(***************************************************************************)
(* Quota gating                                                            *)
(***************************************************************************)
\* C5: a can_make_request() call that finds requests_today at the daily
\* ceiling while the date is still that of day_start returns False; a call
\* that finds the date changed sets requests_today to 0 and day_start to the
\* current time.
C5_DailyGate ==
    [][last_call' = "can_make_request" =>
         /\ (rate_limiter.requests_today >= DailyLimit
             /\ Date(now) = Date(rate_limiter.day_start))
            => (can_ret' = FALSE /\ rate_limiter' = rate_limiter)
         /\ Date(now) # Date(rate_limiter.day_start)
            => (rate_limiter'.requests_today = 0 /\ rate_limiter'.day_start = now)
      ]_vars

\* C5 witness: a call found the daily ceiling reached on a later date, reset
\* the counter and let the request through.
C5_Witness ==
    /\ last_call = "can_make_request" /\ gate_pre.daily_full /\ can_ret
    /\ rate_limiter.requests_today = 0 /\ rate_limiter.day_start = now
    /\ Date(now) > 0

\* whether the daily ceiling lets a call at the current time through
DailyOpen ==
    \/ Date(now) # Date(rate_limiter.day_start)
    \/ rate_limiter.requests_today < DailyLimit

\* C6: a can_make_request() call that finds requests_this_minute at the
\* per-minute ceiling returns False when less than 60 seconds have passed
\* since last_request_time, and, the daily ceiling permitting, returns True
\* with requests_this_minute reset to 0 when 60 seconds or more have passed.
C6_MinuteGate ==
    [][(/\ last_call' = "can_make_request"
        /\ rate_limiter.requests_this_minute >= PerMinuteLimit
        /\ rate_limiter.last_request_time # NoTime) =>
         /\ now - rate_limiter.last_request_time < MinuteSeconds
            => can_ret' = FALSE
         /\ (now - rate_limiter.last_request_time >= MinuteSeconds /\ DailyOpen)
            => (can_ret' = TRUE /\ rate_limiter'.requests_this_minute = 0)
      ]_vars

\* C6 witness: a call found the per-minute ceiling reached, at least a minute
\* after the last request, and let the request through.
C6_Witness ==
    /\ last_call = "can_make_request" /\ gate_pre.minute_full /\ can_ret
    /\ rate_limiter.requests_this_minute = 0
    /\ now - rate_limiter.last_request_time >= MinuteSeconds

(***************************************************************************)
(* analyze_all_comments                                                    *)
(***************************************************************************)
\* the comments that can be classified at all: min(total, max_batches * 20)
Ceiling == Min(Len(csv), max_batches * batch_size)

\* C7: the number of batches is min(max_batches, ceil(total / 20)); batch k
\* (from 0) is the slice of the input file from row 20k up to the ceiling
\* min(total, max_batches * 20), at most 20 rows long, so every batch but the
\* last has exactly 20 comments; a finished run has handed exactly the rows
\* before the ceiling to process_batch.
C7_BatchSlicing ==
    /\ pc \in {"loop", "batch", "done"} =>
          num_batches = Min(max_batches, (Len(csv) + batch_size - 1) \div batch_size)
    /\ pc = "batch" =>
          /\ batch_num = Len(obs.log)
          /\ comments = SubSeq(csv, batch_size * batch_num + 1,
                               Min(batch_size * (batch_num + 1), Ceiling))
          /\ Len(comments) >= 1
          /\ batch_num < num_batches - 1 => Len(comments) = batch_size
    /\ \A k \in 1..Len(obs.log) :
          /\ obs.log[k].batch = k - 1
          /\ obs.log[k].start = batch_size * (k - 1)
          /\ obs.log[k].size = Min(batch_size, Ceiling - obs.log[k].start)
          /\ k < num_batches => obs.log[k].size = batch_size
    /\ pc = "done" =>
          /\ Len(obs.log) = num_batches
          /\ num_batches > 0 =>
                obs.log[num_batches].start + obs.log[num_batches].size = Ceiling
          /\ num_batches = 0 => Ceiling = 0

\* C7 witness: 105 rows with max_batches = 3 ended after 3 batches of 20.
C7_Witness ==
    /\ pc = "done" /\ Len(csv) = 105 /\ max_batches = 3
    /\ Len(obs.log) = 3
    /\ \A k \in 1..3 : obs.log[k].size = 20
    /\ Len(csv) - Ceiling = 45

\* the rows a table holds for the log entry e: one per comment of its batch,
\* in order, each with its position in the file, the name made from it and
\* the text of that row of the file
RowsOfEntry(rows, e) ==
    \A j \in 1..(e.saved - e.before) :
        LET r == rows[e.before + j] IN
        /\ r.comment_id = e.start + j - 1
        /\ r.username = <<"user_", r.comment_id>>
        /\ r.original_comment = csv[r.comment_id + 1]

IdentityIn(rows) ==
    /\ \A k \in 1..Len(obs.log) :
          obs.log[k].before < Len(rows) => RowsOfEntry(rows, obs.log[k])
    /\ \A a \in 1..(Len(rows) - 1) : rows[a].comment_id < rows[a + 1].comment_id

\* C8: in every state of a run, in the accumulated table, the DataFrame and
\* the checkpoint, each row carries the 0-based position of its comment in the
\* input as comment_id, user_<comment_id> as username and the input text at
\* that position as original_comment, and comment_id strictly increases along
\* the rows.
C8_CommentIdentity ==
    /\ IdentityIn(results)
    /\ IdentityIn(analyzed_data.rows)
    /\ IdentityIn(checkpoint.rows)
    /\ Len(results) = IF obs.log = <<>> THEN 0 ELSE obs.log[Len(obs.log)].saved

\* C8 witness: the first batch was lost to an exception, so the table of the
\* finished run starts at comment 20.
C8_Witness ==
    /\ pc = "done" /\ Len(results) >= 2
    /\ results[1].comment_id = batch_size
    /\ results[1].original_comment = csv[batch_size + 1]
    /\ results[2].comment_id = batch_size + 1

\* the number of rows the batches logged so far have contributed
RECURSIVE Kept(_)
Kept(k) ==
    IF k = 0 THEN 0
    ELSE Kept(k - 1) + (IF obs.log[k].raised THEN 0 ELSE obs.log[k].size)

\* C9: once a batch iteration is over, whether it succeeded or raised, the
\* checkpoint file exists and holds the entire table accumulated so far: it
\* equals the in-memory table whenever the next batch starts, and it holds
\* one row for every comment of every batch completed so far.
C9_Checkpointing ==
    /\ (obs.log # <<>> /\ pc \in {"loop", "batch", "done"}) =>
          /\ checkpoint.exists
          /\ checkpoint.rows = results
          /\ analyzed_data = [set |-> TRUE, rows |-> results]
          /\ Len(checkpoint.rows) = Kept(Len(obs.log))
    /\ obs.log = <<>> => ~checkpoint.exists

\* C9 witness: batch 2 of a 25-row input is being processed and the checkpoint
\* holds the 20 rows of batch 1.
C9_Witness ==
    /\ Len(csv) = 25 /\ pc = "batch" /\ batch_num = 1
    /\ Len(checkpoint.rows) = 20 /\ checkpoint.rows = results
    /\ checkpoint.rows[20].comment_id = 19

\* the per-batch step of the coordinator raises: process_batch raised, or the
\* bookkeeping on its result does
StepRaises == pb = "raised" \/ \E i \in 1..Len(ret) : ret[i].type # "dict"

IsPrefix(p, q) == Len(p) <= Len(q) /\ SubSeq(q, 1, Len(p)) = p

\* C10: when the per-batch step of batch k raises, the coordinator writes the
\* rows accumulated before batch k to the checkpoint and goes on to batch
\* k + 1; the rows of earlier batches are never changed, and a run only ends
\* after every batch has been iterated.
C10_ExceptionIsolation ==
    [][/\ (pc = "batch" /\ pc' = "loop" /\ StepRaises) =>
             /\ results' = results
             /\ checkpoint' = [exists |-> TRUE, rows |-> results]
             /\ batch_num' = batch_num + 1
       /\ pc \in {"loop", "batch"} => IsPrefix(results, results')
       /\ pc' = "done" => (batch_num' = num_batches' /\ Len(obs'.log) = num_batches')
      ]_vars

\* C10 witness: in a finished run batch 1 was lost to process_batch raising,
\* batch 2 to the bookkeeping raising, and batch 3 was classified and saved.
C10_Witness ==
    /\ pc = "done" /\ Len(obs.log) = 3
    /\ obs.log[1].raised /\ obs.log[1].path = "raised"
    /\ obs.log[2].raised /\ obs.log[2].path = "parsed"
    /\ ~obs.log[3].raised /\ Len(results) = batch_size
    /\ results[1].comment_id = 2 * batch_size

\* C11: when analyze_all_comments has finished, the Result Table holds exactly
\* one row for every comment of every batch that was iterated, the batches
\* whose processing failed included: the rows are the comments 0 up to the
\* ceiling min(total, max_batches * 20), one each and in order.
C11_AsStated ==
    pc = "done" =>
        /\ Len(analyzed_data.rows) = Ceiling
        /\ \A i \in 1..Len(analyzed_data.rows) : analyzed_data.rows[i].comment_id = i - 1

\* process_batch gave the batch of the log entry e up: retries exhausted or
\* declined
GivenUp(e) == e.path \in {"exhausted", "declined"}

\* C11 (amended): when analyze_all_comments has finished, every one of the
\* num_batches batches was iterated and the Result Table holds, in batch
\* order, exactly one row for every comment of every batch whose step did not
\* raise, the batches process_batch gave up on included (their rows carry the
\* error sentinel); a batch whose step raised has no row in it.
C11_TerminalCoverage ==
    pc = "done" =>
        /\ analyzed_data = [set |-> TRUE, rows |-> results]
        /\ Len(obs.log) = num_batches
        /\ Len(analyzed_data.rows) =
              IF obs.log = <<>> THEN 0 ELSE obs.log[Len(obs.log)].saved
        /\ \A k \in 1..Len(obs.log) :
              LET e == obs.log[k] IN
              /\ e.before = IF k = 1 THEN 0 ELSE obs.log[k - 1].saved
              /\ e.raised => e.saved = e.before
              /\ ~e.raised =>
                    /\ e.saved = e.before + e.size
                    /\ RowsOfEntry(analyzed_data.rows, e)
              /\ GivenUp(e) =>
                    /\ ~e.raised
                    /\ \A j \in 1..e.size :
                          analyzed_data.rows[e.before + j].offense_type = "error"

\* C11 witness: of three iterated batches the first was given up on and is in
\* the table with sentinels, the second raised and is missing, the third was
\* classified: 40 rows for 60 comments.
C11_Witness ==
    /\ pc = "done" /\ Len(obs.log) = 3 /\ Ceiling = 3 * batch_size
    /\ GivenUp(obs.log[1]) /\ obs.log[2].raised /\ obs.log[3].path = "parsed"
    /\ Len(analyzed_data.rows) = 2 * batch_size
    /\ analyzed_data.rows[1].offense_type = "error"
    /\ analyzed_data.rows[batch_size + 1].comment_id = 2 * batch_size

(***************************************************************************)
(* process_batch: the pre-filter                                           *)
(***************************************************************************)
\* the verdict v is non-offensive, of type none, with severity 0.0
IsDefault(v) ==
    v.type = "dict" /\ v.is_offensive = FALSE /\ v.offense_type = "none" /\ v.severity = 0

\* the comments of the batch without a lexicon match all carry such a verdict
CleanAreDefault ==
    \A i \in 1..Len(comments) : ~contains_profanity(comments[i]) => IsDefault(ret[i])

\* C12: with the pre-filter enabled, whenever process_batch has returned, a
\* comment without a lexicon match has the verdict is_offensive = false,
\* offense_type = "none", severity = 0.0, wherever it stands in the batch and
\* whatever happened to the other comments of the batch.
C12_AsStated == (pb = "returned" /\ use_prefilter) => CleanAreDefault

\* C12 (amended): with the pre-filter enabled, a comment without a lexicon
\* match has the verdict is_offensive = false, offense_type = "none",
\* severity = 0.0 wherever it stands in the batch, whenever process_batch
\* returns by the short-circuit or from a successful attempt; when the batch
\* is given up (retries exhausted or declined) it carries the error sentinel
\* like every other comment of the batch.
C12_DefaultVerdict ==
    (pb = "returned" /\ use_prefilter) =>
        /\ obs.path \in {"short_circuit", "parsed", "exhausted", "declined"}
        /\ obs.path \in {"short_circuit", "parsed"} => CleanAreDefault
        /\ obs.path \in {"exhausted", "declined"} =>
              \A i \in 1..Len(comments) : IsSentinel(ret[i])

\* C12 witness: a successful attempt on clean, slur, clean: the response
\* element went to the slur and both clean comments got the default.
C12_Witness ==
    /\ pb = "returned" /\ use_prefilter /\ obs.path = "parsed"
    /\ comments = <<"clean", "slur", "clean">>
    /\ potentially_offensive = <<"slur">>
    /\ IsDefault(ret[1]) /\ IsDefault(ret[3])
    /\ ret[2].type = "dict" /\ ret[2].is_offensive

\* C13: with the pre-filter enabled, process_batch called on a batch of which
\* no comment matches the lexicon returns at once one default non-offensive
\* verdict per comment; it makes no external call, issues no retry prompt,
\* waits for nothing and leaves requests_today, requests_this_minute,
\* last_request_time and day_start as they were.
C13_ShortCircuit ==
    [][(/\ pc = "loop" /\ pc' = "batch" /\ use_prefilter
        /\ \A i \in 1..Len(comments') : ~contains_profanity(comments'[i]))
       => /\ pb' = "returned"
          /\ obs'.path = "short_circuit"
          /\ Len(ret') = Len(comments')
          /\ \A i \in 1..Len(ret') :
                /\ IsDefault(ret'[i])
                /\ ret'[i].explanation.text = "No profanity detected by pre-filter"
          /\ obs'.calls = 0 /\ obs'.prompts = 0 /\ obs'.waits = 0
          /\ rate_limiter' = rate_limiter
          /\ now' = now
          /\ obs'.faults = obs.faults
      ]_vars

\* C13 witness: the second batch of a file with profanity only in its first 20
\* rows has short-circuited, after the first batch had its request recorded.
C13_Witness ==
    /\ pb = "returned" /\ obs.path = "short_circuit" /\ use_prefilter
    /\ batch_num = 1 /\ Len(comments) = batch_size /\ Len(ret) = batch_size
    /\ rate_limiter.requests_today >= 1 /\ rate_limiter.requests_this_minute >= 1
    /\ obs.calls = 0 /\ obs.prompts = 0

(***************************************************************************)
(* The verdicts of the Result Table                                        *)
(***************************************************************************)
\* the log entries whose batch put row i into the table
EntriesOfRow(i) == {k \in 1..Len(obs.log) : obs.log[k].before < i /\ i <= obs.log[k].saved}

\* C14: in every state of a run, whatever the service returned, every row of
\* the Result Table with offense_type = "none" has is_offensive = false, and
\* a row has offense_type = "error" only if it belongs to a batch whose
\* classification could not be obtained (retries exhausted or declined).
C14_VerdictInvariant ==
    \A i \in 1..Len(results) :
        /\ results[i].offense_type = "none" => results[i].is_offensive = FALSE
        /\ results[i].offense_type = "error" =>
              \A k \in EntriesOfRow(i) : GivenUp(obs.log[k])

(***************************************************************************)
(* End to end                                                              *)
(***************************************************************************)
\* a finished run over 25 rows with max_batches = 2 and the pre-filter
\* enabled, in which every external call returned a well-formed array
Scenario25 ==
    /\ pc = "done" /\ Len(csv) = batch_size + 5 /\ max_batches = 2 /\ use_prefilter
    /\ obs.faults = 0
    /\ \A k \in 1..Len(obs.log) :
          obs.log[k].path \in {"parsed", "short_circuit"} /\ ~obs.log[k].raised

\* C18: for an input of 25 rows with max_batches = 2, the pre-filter enabled
\* and an external call that returns a well-formed JSON array for each batch,
\* the output table has exactly 20 rows.
C18_AsStated == Scenario25 => Len(analyzed_data.rows) = 20

\* C18 (amended): in that scenario the output table has exactly 25 rows, the
\* comments 0..24 in order: two batches, of 20 and of 5 comments.
C18_EndToEnd ==
    Scenario25 =>
        /\ Len(analyzed_data.rows) = 25
        /\ \A i \in 1..25 :
              /\ analyzed_data.rows[i].comment_id = i - 1
              /\ analyzed_data.rows[i].original_comment = csv[i]
        /\ Len(obs.log) = 2
        /\ obs.log[1].size = 20 /\ obs.log[2].size = 5
        /\ checkpoint.rows = analyzed_data.rows

\* C18 witness: such a run, with both batches sent to the service.
C18_Witness ==
    /\ Scenario25
    /\ obs.log[1].path = "parsed" /\ obs.log[2].path = "parsed"
    /\ Len(analyzed_data.rows) = 25
    /\ analyzed_data.rows[25].comment_id = 24
    /\ rate_limiter.requests_today = 2

(***************************************************************************)
(* process_batch without the pre-filter                                    *)
(***************************************************************************)
\* C19: with use_prefilter = false every comment of the batch is in the
\* subset sent to the service, process_batch never short-circuits, and when
\* an attempt succeeds verdict i of the returned list is element i of the
\* parsed response, for every i: no default verdict is synthesized.
C19_PrefilterDisabled ==
    (~use_prefilter /\ pc = "batch") =>
        /\ potentially_offensive = comments
        /\ obs.path # "short_circuit"
        /\ (pb = "returned" /\ obs.path = "parsed") =>
              /\ Len(ret) = Len(comments)
              /\ Len(obs.response) >= Len(ret)
              /\ \A i \in 1..Len(ret) :
                    /\ ret[i] = obs.response[i]
                    /\ ret[i] # DefaultVerdict(FALSE)
                    /\ ret[i] # DefaultVerdict(TRUE)

\* C19 witness: clean, slur, clean went to the service whole and each comment
\* carries the response element of its position, so the first clean comment
\* is offensive and the slur is not.
C19_Witness ==
    /\ ~use_prefilter /\ pb = "returned" /\ obs.path = "parsed"
    /\ comments = <<"clean", "slur", "clean">>
    /\ potentially_offensive = comments
    /\ ret = SubSeq(obs.response, 1, 3)
    /\ ret[1].type = "dict" /\ ret[1].is_offensive
    /\ ret[2].type = "dict" /\ ~ret[2].is_offensive

(***************************************************************************)
(* process_batch: the bound on the retries                                 *)
(***************************************************************************)
\* C20: one call of process_batch invokes the external call at most 3 times
\* and issues at most 2 retry prompts; the attempt whose response parses and
\* reconciles is the last external call of the batch: process_batch returns
\* with it, and once it has returned no call, prompt or wait follows.
C20_BoundedRetry ==
    [][/\ obs'.calls <= max_retries
       /\ obs'.prompts <= max_retries - 1
       /\ obs'.calls > obs.calls =>
             /\ pb = "gate" /\ obs'.calls = obs.calls + 1
             /\ retry_count = obs.calls
       /\ (pb = "gate" /\ obs'.path = "parsed") =>
             /\ pb' = "returned"
             /\ retry_count' = retry_count
       /\ pb = "returned" =>
             /\ pb' \in {"returned", "idle"}
             /\ obs'.calls = obs.calls
             /\ obs'.prompts = obs.prompts
             /\ obs'.waits = obs.waits
      ]_vars

\* C20 witness: the third call succeeded after two failures and two accepted
\* retry prompts.
C20_Witness ==
    /\ pb = "returned" /\ obs.path = "parsed"
    /\ obs.calls = 3 /\ obs.prompts = 2 /\ obs.waits = 2 /\ retry_count = 2

(***************************************************************************)
(* compare_prefilter_results                                               *)
(***************************************************************************)
\* the comment ids both tables have, and how many of them, both tables
\* taken whole, have the flags f (filtered) and o (original)
Joined == {r.comment_id : r \in {cmp.data[i] : i \in 1..Len(cmp.data)}}
          \cap {r.comment_id : r \in {cmp.original_data.rows[i] :
                                        i \in 1..Len(cmp.original_data.rows)}}

FlagIn(t, id) == t[CHOOSE i \in 1..Len(t) : t[i].comment_id = id].is_offensive

JoinedWith(f, o) ==
    Cardinality({id \in Joined : /\ FlagIn(cmp.data, id) = f
                                 /\ FlagIn(cmp.original_data.rows, id) = o})

\* a / b, taken as 0 when b = 0
Ratio(a, b) == IF b = 0 THEN Zero ELSE Frac(a, b)

\* C17: for any two Result Tables, compare_prefilter_results called without
\* n_samples computes tp, fp, fn, tn as the numbers of rows of the join on
\* comment_id whose (filtered, original) flags are (true, true), (true,
\* false), (false, true), (false, false), and accuracy = (tp + tn) / (tp + fp
\* + fn + tn), precision = tp / (tp + fp), recall = tp / (tp + fn),
\* F1 = 2 * precision * recall / (precision + recall), each 0 when its
\* denominator is 0: accuracy is taken over the rows actually compared.
C17_ComparisonMetrics ==
    (cmp.at = "returned" /\ cmp.original_data.set /\ ~cmp.n_samples.given) =>
        LET out == cmp.out
            tp == JoinedWith(TRUE, TRUE)
            fp == JoinedWith(TRUE, FALSE)
            fn == JoinedWith(FALSE, TRUE)
            tn == JoinedWith(FALSE, FALSE)
            precision == Ratio(tp, tp + fp)
            recall == Ratio(tp, tp + fn)
            sum == FracAdd(precision, recall)
        IN /\ out.raised = "no"
           /\ out.tp = tp /\ out.fp = fp /\ out.fn = fn /\ out.tn = tn
           /\ FracEq(out.accuracy, Ratio(tp + tn, tp + fp + fn + tn))
           /\ FracEq(out.precision, precision)
           /\ FracEq(out.recall, recall)
           /\ FracEq(out.f1, IF sum.num = 0 THEN Zero
                             ELSE FracDiv(FracMul(Frac(2, 1),
                                                  FracMul(precision, recall)), sum))

(***************************************************************************)
(* cli.main                                                                *)
(***************************************************************************)
\* the invocation is a successful one: the input file exists, a credential
\* was supplied, no comparison file is missing, the analysis completed and
\* its table was saved
Successful ==
    /\ cli.args.input_file = "present" /\ cli.args.api_key
    /\ cli.args.compare # "missing"
    /\ pc = "done" /\ cli.saved

\* the charts-only flow, confirmed, with the output file on disk and no
\* comparison file missing
ChartsOnlyConfirmed ==
    /\ cli.args.charts /\ cli.args.input_file = "none"
    /\ Lower(cli.answer) = "yes"
    /\ cli.args.output_exists /\ cli.args.compare # "missing"

\* the charts-only flow was not confirmed: main logs the error that no input
\* file was given and returns
Refused ==
    /\ cli.args.charts /\ cli.args.input_file = "none"
    /\ cli.error = "none" /\ Lower(cli.answer) # "yes"

\* C15: main returns 0 on every successful invocation (input file exists,
\* credential supplied, analysis and saving complete), whatever the option
\* values, the defaults included, and returns 1 exactly when an error was
\* caught (or the charts-only flow was refused at its prompt); the confirmed
\* charts-only flow returns 0 when the output file exists.
C15_ExitCode ==
    cli.at = "exit" =>
        /\ cli.code \in {0, 1}
        /\ cli.code = 1 <=> (cli.caught \/ Refused)
        /\ Successful => cli.code = 0
        /\ ChartsOnlyConfirmed => cli.code = 0

\* main has ended on a configuration error: a file that is not there (the
\* input, the output of the charts-only flow, the comparison file) or no
\* credential
ConfigurationError ==
    cli.at = "exit" /\ cli.error \in {"FileNotFoundError", "TypeError", "ValueError"}

\* C16: when the input file, the credential or a required output or
\* comparison file is missing, main exits with failure status, and at that
\* point no batch has been processed and no external classification call has
\* been made.
C16_ConfigurationFirst ==
    ConfigurationError =>
        /\ cli.code = 1
        /\ obs.log = <<>> /\ batch_num = 0 /\ results = <<>>
        /\ obs.calls = 0 /\ rate_limiter.requests_today = 0
        /\ ~checkpoint.exists

(***************************************************************************)
(* process_batch: the size of the response                                 *)
(***************************************************************************)
\* the verdicts of ret that belong to the comments sent, in order
SentVerdicts ==
    LET IsSent(i) == InList(comments[i], potentially_offensive)
        idx == SelectSeq([i \in 1..Len(ret) |-> i], IsSent)
    IN [k \in 1..Len(idx) |-> ret[idx[k]]]

\* C26: an attempt whose parsed response has fewer elements than comments
\* were sent fails with IndexError, counts as one of the 3 attempts and leads
\* to the retry prompt or to the full-length sentinel list, so no returned
\* list is shorter than the batch; a response with more elements than
\* comments sent succeeds: the sent comments get its first elements in order
\* and the surplus is dropped.
C26_SizeMismatch ==
    [][/\ (pb = "gate" /\ last_error' = "IndexError" /\ retry_count' # retry_count) =>
             /\ retry_count' = retry_count + 1
             /\ retry_count' <= max_retries
             /\ pb' = IF retry_count' < max_retries THEN "prompt" ELSE "returned"
             /\ pb' = "returned" =>
                   /\ Len(ret') = Len(comments)
                   /\ \A i \in 1..Len(ret') : IsSentinel(ret'[i])
       /\ (pb' = "returned" /\ obs'.path = "parsed") =>
             /\ Len(obs'.response) >= Len(potentially_offensive')
             /\ Len(ret') = Len(comments')
             /\ SentVerdicts' = SubSeq(obs'.response, 1, Len(potentially_offensive'))
      ]_vars

\* C26 witness: a response one element short failed the first attempt, the
\* retry was accepted, and a response one element long succeeded.
C26_Witness ==
    /\ pb = "returned" /\ obs.path = "parsed"
    /\ retry_count = 1 /\ last_error = "IndexError" /\ obs.calls = 2
    /\ Len(potentially_offensive) = 2
    /\ Len(obs.response) = Len(potentially_offensive) + 1
    /\ Len(ret) = Len(comments)

(***************************************************************************)
(* The quota in a run                                                      *)
(***************************************************************************)
\* the step invokes the external call
Invokes == obs'.calls = obs.calls + 1

\* C21: every invocation of the external call, whether it returns a response
\* or fails, is followed at once by record_request: the step that makes the
\* call ends with the request recorded, requests_today and
\* requests_this_minute one higher than the gate left them and
\* last_request_time set to the time the call ended.
C21_QuotaRecording ==
    [][Invokes =>
          LET c == can_make_request(rate_limiter, now) IN
          /\ last_call' = "record_request"
          /\ rate_limiter'.requests_today = c.rl.requests_today + 1
          /\ rate_limiter'.requests_this_minute = c.rl.requests_this_minute + 1
          /\ rate_limiter'.last_request_time = now'
      ]_vars

\* what the counters amount to at the current time, whatever was written
\* into them last
Today ==
    IF Date(now) # Date(rate_limiter.day_start) THEN 0
    ELSE rate_limiter.requests_today

ThisMinute ==
    IF rate_limiter.last_request_time # NoTime
       /\ now - rate_limiter.last_request_time >= MinuteSeconds
    THEN 0 ELSE rate_limiter.requests_this_minute

Open == Today < DailyLimit /\ ThisMinute < PerMinuteLimit

\* C23: the external call is invoked only in a pass of the retry loop whose
\* can_make_request() call returned True, one invocation per such call;
\* while the counters keep the gate closed, process_batch does nothing but
\* sleep two seconds and ask again.
C23_GateOrdering ==
    [][/\ svc'.at # svc.at =>
             /\ pb = "gate" /\ Open /\ can_ret'
             /\ svc'.at = Append(svc.at, now)
       /\ (pb = "gate" /\ ~Open) =>
             /\ svc' = svc /\ obs'.calls = obs.calls
             /\ ~can_ret' /\ last_call' = "can_make_request"
             /\ now' = now + PollSleep
             /\ UNCHANGED <<pbvars, runvars>>
      ]_vars

\* the gate was found closed on the per-minute ceiling, opened a minute
\* after the last request, and the call that followed has been recorded
C23_Witness ==
    /\ gate_pre.minute_full /\ can_ret /\ last_call = "record_request"
    /\ rate_limiter.requests_this_minute = 1
    /\ svc.recorded = PerMinuteLimit + 1
    /\ obs.calls > 0

\* the invocations on the date d
InvokedOn(d) == {i \in DOMAIN svc.at : Date(svc.at[i]) = d}

\* C24: the service is invoked at most DailyLimit times on a date and at
\* most PerMinuteLimit times in less than a minute.
C24_ServiceCeilings ==
    /\ \A i \in DOMAIN svc.at : Cardinality(InvokedOn(Date(svc.at[i]))) <= DailyLimit
    /\ \A i, j \in DOMAIN svc.at :
          (j = i + PerMinuteLimit) => svc.at[j] - svc.at[i] >= MinuteSeconds

\* C25: in a run driven by process_batch requests_today stays within
\* 0..DailyLimit and requests_this_minute within 0..PerMinuteLimit, and
\* last_request_time is unset exactly as long as no request was recorded.
C25_CounterBounds ==
    /\ rate_limiter.requests_today \in 0..DailyLimit
    /\ rate_limiter.requests_this_minute \in 0..PerMinuteLimit
    /\ (rate_limiter.last_request_time = NoTime) <=> (svc.recorded = 0)

\* the run has recorded DailyLimit requests, having waited at the
\* per-minute ceiling on the way, and process_batch now waits at the gate
\* for the date to change
C25_Witness ==
    /\ rate_limiter.requests_today = DailyLimit /\ svc.recorded = DailyLimit
    /\ gate_pre.daily_full
    /\ pb = "gate" /\ last_call = "can_make_request" /\ ~can_ret

(***************************************************************************)
(* analyze_all_comments: pacing and accumulation                           *)
(***************************************************************************)
\* C22: the iteration of batch k ends with a wait of 5 seconds when k is not
\* the last batch (k < num_batches - 1), whether the batch succeeded, ended
\* in error sentinels or raised an exception the coordinator caught, and
\* with no wait after the last batch.
C22_Pacing ==
    [][(pc = "batch" /\ pc' = "loop") =>
          now' - now = IF batch_num < num_batches - 1 THEN PaceSleep ELSE 0
      ]_vars

\* C27: within one call of analyze_all_comments the accumulated table is
\* only extended at its end, every batch end publishes it whole as the
\* Result Table and as the checkpoint, so that the row count written to the
\* checkpoint never goes down during the call and the rows stay in the
\* order of the comments; a further call starts from an empty table, and
\* what it publishes holds rows of that call only.
C27_MonotoneAccumulation ==
    [][/\ (pc \in {"loop", "batch"} /\ pc' \in {"loop", "batch", "done"}) =>
             /\ IsPrefix(results, results')
             /\ \A i, j \in DOMAIN results' :
                    i < j => results'[i].comment_id < results'[j].comment_id
       /\ (pc = "batch" /\ pc' = "loop") =>
             /\ analyzed_data' = [set |-> TRUE, rows |-> results']
             /\ checkpoint'.exists /\ checkpoint'.rows = results'
             /\ obs.log # <<>> =>
                   Len(checkpoint'.rows) >= obs.log[Len(obs.log)].saved
       /\ (pc = "loop" /\ pc' = "done") =>
             analyzed_data' = [set |-> TRUE, rows |-> results]
       /\ (pc = "done" /\ pc' # "done") =>
             /\ results' = <<>> /\ obs'.log = <<>>
             /\ analyzed_data' = analyzed_data
      ]_vars

\* the second call on one analyzer has ended: its first batch raised and
\* left an empty table, its second batch extended that table by five rows
C27_Witness ==
    /\ obs.runs = 2 /\ pc = "done" /\ Len(obs.log) = 2
    /\ obs.log[1].saved = 0 /\ obs.log[2].saved = 5
    /\ analyzed_data.rows = results /\ Len(results) = 5

(***************************************************************************)
(* Termination                                                             *)
(***************************************************************************)
\* C28: with the clock advancing and every retry prompt answered, every
\* process_batch call returns, and analyze_all_comments reaches its end
\* having called process_batch once for each of the num_batches batches, in
\* the order of their indices.
C28_Termination ==
    /\ (pb \in {"gate", "prompt"}) ~> (pb = "returned")
    /\ <>(pc = "done")
    /\ [](pc = "batch" => batch_num = Len(obs.log))
    /\ [](pc = "done" =>
            /\ Len(obs.log) = num_batches
            /\ \A k \in 1..Len(obs.log) : obs.log[k].batch = k - 1)

\* the run has ended on the day after its start: it waited at the
\* per-minute ceiling, then at the daily ceiling until the date changed,
\* and called process_batch for each of its batches
C28_Witness ==
    /\ pc = "done" /\ Len(obs.log) = DailyBatches
    /\ Date(now) = 1 /\ svc.recorded > DailyLimit

====
